---- MODULE Spec2Model ----
(***************************************************************************)
(* A model of xmailer (src/xmailer.go): the XMailer client (constructors,  *)
(* the three dial variants, Auth, Send, Quit) and the Message serializer   *)
(* (the builder methods, payload, readFile).                               *)
(*                                                                         *)
(* Text is modelled at the granularity of CRLF-terminated lines: a byte    *)
(* string is a sequence of lines, a line is a sequence of tokens (short    *)
(* strings that stand for the characters written by one format verb or one *)
(* literal).  The empty line is <<>>.  A string that does not end in CRLF  *)
(* is the sequence of its lines; the empty string is <<>>.                 *)
(***************************************************************************)
EXTENDS Integers, Sequences, FiniteSets, TLC

VARIABLES
  x,        \* the XMailer struct (Addr, Host, client, dialed, tlsConfig)
  isNil,    \* TRUE iff the *XMailer the last constructor returned is nil
  sockets,  \* number of transport connections opened and not yet closed
  m,        \* the Message struct
  op,       \* name of the last operation called
  arg,      \* its string argument (address, path), as a sequence of tokens
  ret,      \* what it returned: "nil", an error name, or "panic"
  wire,     \* the protocol events of the last operation, in order
  data,     \* the bytes the last operation produced (payload written/returned)
  reads     \* the paths the last operation passed to readFile, in order

vars == <<x, isNil, sockets, m, op, arg, ret, wire, data, reads>>

(***************************************************************************)
(* Bounds of the model.                                                    *)
(***************************************************************************)
MaxItems == 3       \* SpecMsg: entries of To, CC, Bcc and Attachments together
MaxTo == 2          \* Spec: entries of Message.To
MaxConns == 2       \* Spec: transport connections open at the same time
MaxAddrLen == 4     \* SpecNew: characters of a server address

(***************************************************************************)
(* Small helpers on sequences.                                             *)
(***************************************************************************)
RECURSIVE Join(_, _)
\* strings.Join(elems, sep), as tokens
Join(elems, sep) ==
  IF Len(elems) = 0 THEN <<>>
  ELSE IF Len(elems) = 1 THEN <<elems[1]>>
  ELSE <<elems[1], sep>> \o Join(Tail(elems), sep)

SeqsUpTo(S, n) == UNION {[1..k -> S] : k \in 0..n}

(***************************************************************************)
(* The Message struct and its builder methods.                             *)
(***************************************************************************)
LocalName == "localhost"

\* var boundary = generateBoundary(): one value for the whole process
boundary == "BOUNDARY"

\* generateMessageID and time.Now().Format: opaque tokens
generateMessageID == "<pid.nanos@host>"
Now == "<date>"

\* The line a multi-part delimiter is written as.
DelimLine == <<"--", boundary>>

\* A nil []byte is <<>>; a non-nil []byte b is <<b>>.
NilBytes == <<>>
Bytes(b) == <<b>>

\* The file system the process sees: one regular file and its bytes and one
\* directory; every other path (the empty path included) does not exist.
FileBytes == [p \in {"/a/f.txt"} |-> <<255, 0, 16, 131>>]
RegularFiles == DOMAIN FileBytes
Directories == {"/a/dir"}
Paths == RegularFiles \cup Directories \cup {"/a/missing", ""}

Base(p) ==
  CASE p = "/a/f.txt" -> "f.txt"
    [] p = "/a/dir" -> "dir"
    [] p = "/a/missing" -> "missing"
    [] OTHER -> "."

\* filepath.Ext and mime.TypeByExtension on the paths of the model
Ext(p) == IF p \in {"/a/f.txt", "\\a\\f.txt"} THEN ".txt" ELSE ""
TypeByExtension(ext) == IF ext = ".txt" THEN "text/plain; charset=utf-8" ELSE ""

ParseContentTypeWithExt(fileNameWithExt) ==
  IF fileNameWithExt = "" THEN "application/octet-stream"
  ELSE IF Ext(fileNameWithExt) = "" THEN "application/octet-stream"
  ELSE IF TypeByExtension(Ext(fileNameWithExt)) = "" THEN "application/octet-stream"
  ELSE TypeByExtension(Ext(fileNameWithExt))

NewMessage ==
  [Subject |-> "", FromAddr |-> "", FromName |-> "", To |-> <<>>, CC |-> <<>>,
   Bcc |-> <<>>, Text |-> <<>>, HTML |-> <<>>, Attachments |-> <<>>]

\* readFile: [err, buf]
readFile(fileWithFullPath) ==
  IF fileWithFullPath \in RegularFiles
    THEN [err |-> "nil", buf |-> FileBytes[fileWithFullPath]]
  ELSE IF fileWithFullPath \in Directories
    THEN [err |-> "ErrRead", buf |-> <<>>]        \* Stat and Open succeed, Read fails
  ELSE [err |-> "ErrStat", buf |-> <<>>]

(***************************************************************************)
(* base64.StdEncoding                                                      *)
(***************************************************************************)
encodeStd ==
  <<"A","B","C","D","E","F","G","H","I","J","K","L","M","N","O","P",
    "Q","R","S","T","U","V","W","X","Y","Z","a","b","c","d","e","f",
    "g","h","i","j","k","l","m","n","o","p","q","r","s","t","u","v",
    "w","x","y","z","0","1","2","3","4","5","6","7","8","9","+","/">>

\* EncodeToString without the padded group for the one or two last bytes.
RECURSIVE EncodeToString_Truncating(_)
EncodeToString_Truncating(src) ==
  IF Len(src) < 3 THEN <<>>
  ELSE
    <<encodeStd[(src[1] \div 4) + 1],
      encodeStd[((src[1] % 4) * 16 + (src[2] \div 16)) + 1],
      encodeStd[((src[2] % 16) * 4 + (src[3] \div 64)) + 1],
      encodeStd[(src[3] % 64) + 1]>> \o EncodeToString_Truncating(SubSeq(src, 4, Len(src)))

\* base64.StdEncoding.EncodeToString
RECURSIVE EncodeToString(_)
EncodeToString(src) ==
  IF Len(src) = 0 THEN <<>>
  ELSE IF Len(src) = 1 THEN
    <<encodeStd[(src[1] \div 4) + 1], encodeStd[((src[1] % 4) * 16) + 1], "=", "=">>
  ELSE IF Len(src) = 2 THEN
    <<encodeStd[(src[1] \div 4) + 1],
      encodeStd[((src[1] % 4) * 16 + (src[2] \div 16)) + 1],
      encodeStd[((src[2] % 16) * 4) + 1], "=">>
  ELSE
    <<encodeStd[(src[1] \div 4) + 1],
      encodeStd[((src[1] % 4) * 16 + (src[2] \div 16)) + 1],
      encodeStd[((src[2] % 16) * 4 + (src[3] \div 64)) + 1],
      encodeStd[(src[3] % 64) + 1]>> \o EncodeToString(SubSeq(src, 4, Len(src)))

(***************************************************************************)
(* Message.payload                                                         *)
(***************************************************************************)
isMixed(msg) == Len(msg.Attachments) > 0
isAlternative(msg) == Len(msg.Text) > 0 /\ Len(msg.HTML) > 0

\* lines 309-318
payloadAddressHeaders(msg) ==
  <<<<"Message-Id: ", generateMessageID>>,
    <<"Mime-Version: 1.0">>,
    <<"Date: ", Now>>,
    <<"From: ", msg.FromName, " <", msg.FromAddr, ">">>,
    <<"To: ">> \o Join(msg.To, ", ")>>
  \o (IF Len(msg.CC) > 0 THEN << <<"CC: ">> \o Join(msg.CC, ", ") >> ELSE <<>>)
  \o (IF Len(msg.Bcc) > 0 THEN << <<"BCC: ">> \o Join(msg.Bcc, ", ") >> ELSE <<>>)

\* payloadContentType with the two multi-part cases tested in the other order.
payloadContentType_AlternativeFirst(msg) ==
  IF isAlternative(msg) THEN
    <<<<"Content-Type: ", "multipart/alternative", ";">>, <<" boundary=", boundary>>>>
  ELSE IF isMixed(msg) THEN
    <<<<"Content-Type: ", "multipart/mixed", ";">>, <<" boundary=", boundary>>>>
  ELSE IF Len(msg.HTML) > 0 THEN
    <<<<"Content-Type: ", "text/html", "; charset=UTF-8">>,
      <<"Content-Transfer-Encoding: ", "quoted-printable">>>>
  ELSE
    <<<<"Content-Type: ", "text/plain", "; charset=UTF-8">>,
      <<"Content-Transfer-Encoding: ", "quoted-printable">>>>

\* lines 323-334
payloadContentType(msg) ==
  IF isMixed(msg) THEN
    <<<<"Content-Type: ", "multipart/mixed", ";">>, <<" boundary=", boundary>>>>
  ELSE IF isAlternative(msg) THEN
    <<<<"Content-Type: ", "multipart/alternative", ";">>, <<" boundary=", boundary>>>>
  ELSE IF Len(msg.HTML) > 0 THEN
    <<<<"Content-Type: ", "text/html", "; charset=UTF-8">>,
      <<"Content-Transfer-Encoding: ", "quoted-printable">>>>
  ELSE
    <<<<"Content-Type: ", "text/plain", "; charset=UTF-8">>,
      <<"Content-Transfer-Encoding: ", "quoted-printable">>>>

\* payloadSubject without the delimiter that opens a multi-part body.
payloadSubject_NoOpening(msg) ==
  <<<<"Subject: ", msg.Subject>>>>
  \o (IF isMixed(msg) \/ isAlternative(msg) THEN <<<<>>>> ELSE <<>>)

\* lines 336-340
payloadSubject(msg) ==
  <<<<"Subject: ", msg.Subject>>>>
  \o (IF isMixed(msg) \/ isAlternative(msg) THEN <<<<>>, DelimLine>> ELSE <<>>)

\* payloadBody without the test that the body variant is present.
payloadBody_AlwaysWritten(msg, body, ctype) ==
  (IF isAlternative(msg) \/ isMixed(msg)
     THEN <<<<"Content-Type: ", ctype, "; charset=UTF-8">>,
            <<"Content-Transfer-Encoding: ", "quoted-printable">>>>
     ELSE <<>>)
  \o <<<<>>>> \o body
  \o (IF isAlternative(msg) \/ isMixed(msg) THEN <<DelimLine>> ELSE <<>>)

\* lines 342-351 and 353-362: one body variant
payloadBody(msg, body, ctype) ==
  IF Len(body) > 0 THEN
    (IF isAlternative(msg) \/ isMixed(msg)
       THEN <<<<"Content-Type: ", ctype, "; charset=UTF-8">>,
              <<"Content-Transfer-Encoding: ", "quoted-printable">>>>
       ELSE <<>>)
    \o <<<<>>>> \o body
    \o (IF isAlternative(msg) \/ isMixed(msg) THEN <<DelimLine>> ELSE <<>>)
  ELSE <<>>

\* lines 374-379: the part written for one attachment whose Content is set
payloadAttachment(attachment) ==
  <<<<"Content-Disposition: attachment;">>,
    <<" filename=\"", attachment.BaseName, "\"">>,
    <<"Content-Id: <", attachment.BaseName, ">">>,
    <<"Content-Transfer-Encoding: ", "base64">>,
    <<"Content-Type: ", attachment.ContentType>>,
    <<>>,
    EncodeToString(attachment.Content[1]),
    DelimLine>>

\* payloadAttachments without the assignment of what readFile returned to
\* attachment.Content.
RECURSIVE payloadAttachments_Uncached(_, _)
payloadAttachments_Uncached(atts, i) ==
  IF i > Len(atts)
    THEN [err |-> "nil", out |-> <<>>, atts |-> atts, reads |-> <<>>]
  ELSE
    LET rd == readFile(atts[i].FileName)
        needs == atts[i].Content = NilBytes
        called == IF needs THEN <<atts[i].FileName>> ELSE <<>>
    IN IF needs /\ rd.err # "nil"
         THEN [err |-> rd.err, out |-> <<>>, atts |-> atts, reads |-> called]
         ELSE LET a1 == IF needs THEN [atts[i] EXCEPT !.Content = Bytes(rd.buf)]
                                   ELSE atts[i]
                  rest == payloadAttachments_Uncached(atts, i + 1)
              IN [err |-> rest.err,
                  out |-> payloadAttachment(a1) \o rest.out,
                  atts |-> rest.atts,
                  reads |-> called \o rest.reads]

\* lines 364-381: the loop over the attachments from index i on.
\* [err, out, atts, reads]: the error, the lines written, the attachments as
\* left, the paths readFile was called with.
RECURSIVE payloadAttachments(_, _)
payloadAttachments(atts, i) ==
  IF i > Len(atts)
    THEN [err |-> "nil", out |-> <<>>, atts |-> atts, reads |-> <<>>]
  ELSE
    LET rd == readFile(atts[i].FileName)
        needs == atts[i].Content = NilBytes
        called == IF needs THEN <<atts[i].FileName>> ELSE <<>>
    IN IF needs /\ rd.err # "nil"
         THEN [err |-> rd.err, out |-> <<>>, atts |-> atts, reads |-> called]
         ELSE LET a1 == IF needs THEN [atts[i] EXCEPT !.Content = Bytes(rd.buf)]
                                   ELSE atts[i]
                  rest == payloadAttachments([atts EXCEPT ![i] = a1], i + 1)
              IN [err |-> rest.err,
                  out |-> payloadAttachment(a1) \o rest.out,
                  atts |-> rest.atts,
                  reads |-> called \o rest.reads]

\* Message.payload: [err, bytes, m, reads]: the error, the bytes returned
\* (<<>> with an error, as the caller gets nil), the message as payload leaves
\* it and the paths it called readFile with.
payload(msg) ==
  LET head == payloadAddressHeaders(msg) \o payloadContentType(msg)
              \o payloadSubject(msg)
              \o payloadBody(msg, msg.Text, "text/plain")
              \o payloadBody(msg, msg.HTML, "text/html")
      att == IF isMixed(msg) THEN payloadAttachments(msg.Attachments, 1)
             ELSE [err |-> "nil", out |-> <<>>, atts |-> msg.Attachments,
                   reads |-> <<>>]
  IN [err |-> att.err,
      bytes |-> IF att.err = "nil" THEN head \o att.out ELSE <<>>,
      m |-> [msg EXCEPT !.Attachments = att.atts],
      reads |-> att.reads]

(***************************************************************************)
(* The XMailer struct.  x.client is the *smtp.Client: nil, or a client on  *)
(* a transport connection that is open or closed, whose greeting (EHLO)    *)
(* succeeded or failed, and on which a dial ran to its end or not.         *)
(***************************************************************************)
NilClient == [nil |-> TRUE, open |-> FALSE, hello |-> FALSE, ready |-> FALSE]

ZeroXMailer ==
  [Addr |-> <<>>, Host |-> <<>>, client |-> NilClient, dialed |-> FALSE,
   tlsConfig |-> FALSE]

\* The address given to the constructor of the client the specifications of
\* the session and of the message start from.
ServerAddr == <<"h", ":", "p">>

(***************************************************************************)
(* The constructors.  An address is a sequence of characters.              *)
(***************************************************************************)
AddrChars == {"h", ":", "1"}

\* strings.Index(addr, ":"), counted from 0; -1 when there is none
RECURSIVE IndexColonFrom(_, _)
IndexColonFrom(addr, i) ==
  IF i > Len(addr) THEN -1
  ELSE IF addr[i] = ":" THEN i - 1
  ELSE IndexColonFrom(addr, i + 1)
IndexColon(addr) == IndexColonFrom(addr, 1)

\* strings.LastIndex, as net.SplitHostPort uses it
RECURSIVE LastIndexColonFrom(_, _)
LastIndexColonFrom(addr, i) ==
  IF i < 1 THEN -1
  ELSE IF addr[i] = ":" THEN i - 1
  ELSE LastIndexColonFrom(addr, i - 1)

\* net.SplitHostPort on an address without brackets: [err, host].  The port
\* follows the last colon; a colon left in the host is an error.
SplitHostPort(addr) ==
  LET i == LastIndexColonFrom(addr, Len(addr))
      host == SubSeq(addr, 1, i)
  IN IF i < 0 THEN [err |-> "ErrMissingPort", host |-> <<>>]
     ELSE IF IndexColon(host) >= 0 THEN [err |-> "ErrTooManyColons", host |-> <<>>]
     ELSE [err |-> "nil", host |-> host]

\* InvalidAddress without the test for a colon in the last place.
InvalidAddress_PortUnchecked(addr) ==
  LET pos == IndexColon(addr)
  IN pos = -1 \/ pos = 0

\* lines 57-60 and 77-80: the check both constructors start with
InvalidAddress(addr) ==
  LET pos == IndexColon(addr)
  IN pos = -1 \/ pos = 0 \/ pos = Len(addr) - 1

\* NewXMailer: [err, nil, x]
NewXMailerResult(addr) ==
  LET sp == SplitHostPort(addr)
  IN IF InvalidAddress(addr)
       THEN [err |-> "ErrInvalidAddress", nil |-> TRUE, x |-> ZeroXMailer]
     ELSE IF sp.err # "nil"
       THEN [err |-> sp.err, nil |-> TRUE, x |-> ZeroXMailer]
     ELSE [err |-> "nil", nil |-> FALSE,
           x |-> [ZeroXMailer EXCEPT !.Addr = addr, !.Host = sp.host]]

\* NewXMailerWithStartTLS; tlsConfig is TRUE for a non-nil *tls.Config
NewXMailerWithStartTLSResult(addr, tlsConfig) ==
  LET sp == SplitHostPort(addr)
  IN IF InvalidAddress(addr)
       THEN [err |-> "ErrInvalidAddress", nil |-> TRUE, x |-> ZeroXMailer]
     ELSE IF sp.err # "nil"
       THEN [err |-> sp.err, nil |-> TRUE, x |-> ZeroXMailer]
     ELSE IF ~tlsConfig
       THEN [err |-> "ErrNoTLSConfig", nil |-> TRUE, x |-> ZeroXMailer]
     ELSE [err |-> "nil", nil |-> FALSE,
           x |-> [ZeroXMailer EXCEPT !.Addr = addr, !.Host = sp.host,
                                     !.tlsConfig = TRUE]]

Returned(name, a, r) ==
  /\ op' = name
  /\ arg' = a
  /\ ret' = r
  /\ data' = <<>>
  /\ reads' = <<>>

NewXMailer ==
  \E addr \in SeqsUpTo(AddrChars, MaxAddrLen) :
    LET r == NewXMailerResult(addr)
    IN /\ x' = r.x
       /\ isNil' = r.nil
       /\ wire' = <<>>
       /\ Returned("NewXMailer", addr, r.err)
       /\ UNCHANGED <<sockets, m>>

NewXMailerWithStartTLS ==
  \E addr \in SeqsUpTo(AddrChars, MaxAddrLen), tlsConfig \in BOOLEAN :
    LET r == NewXMailerWithStartTLSResult(addr, tlsConfig)
    IN /\ x' = r.x
       /\ isNil' = r.nil
       /\ wire' = <<>>
       /\ Returned("NewXMailerWithStartTLS", addr, r.err)
       /\ UNCHANGED <<sockets, m>>

\* The program before it has constructed anything.
InitNew ==
  /\ x = ZeroXMailer
  /\ isNil = TRUE
  /\ sockets = 0
  /\ m = NewMessage
  /\ op = "start"
  /\ arg = <<>>
  /\ ret = "nil"
  /\ wire = <<>>
  /\ data = <<>>
  /\ reads = <<>>

NextNew ==
  \/ NewXMailer
  \/ NewXMailerWithStartTLS

SpecNew == InitNew /\ [][NextNew]_vars


(***************************************************************************)
(* The session: the dial variants, Auth, Send and Quit.                    *)
(*                                                                         *)
(* The server and the network are the environment: whether the transport   *)
(* connects (and the 220 greeting is read), whether EHLO is accepted,      *)
(* which extensions the server advertises and whether it accepts STARTTLS, *)
(* AUTH, MAIL, each RCPT, DATA, the body and the end of the data phase.    *)
(* A command on a closed connection fails.                                 *)
(***************************************************************************)
Ev(cmd, a, ok) == [cmd |-> cmd, arg |-> a, ok |-> ok]

\* What the environment answers during one dial.  An answer to a step that
\* follows a failed one is never asked for, and is left TRUE.
DialAnswers ==
  {o \in [conn : BOOLEAN, hello : BOOLEAN, advTLS : BOOLEAN, tlsOk : BOOLEAN,
          advAuth : BOOLEAN, authOk : BOOLEAN] :
     /\ ~o.conn => o.hello
     /\ ~(o.conn /\ o.hello) => o.advTLS
     /\ ~(o.conn /\ o.hello /\ o.advTLS) => o.tlsOk
     /\ ~(o.conn /\ o.hello /\ o.tlsOk) => o.advAuth
     /\ ~(o.conn /\ o.hello /\ o.tlsOk /\ o.advAuth) => o.authOk}

\* What the server answers during one transaction; rcptBad is the index of
\* the first RCPT it rejects (0: none).  As above for the answers that
\* follow a rejection.
SendAnswers ==
  {s \in [mail : BOOLEAN, rcptBad : 0..MaxTo, data : BOOLEAN, write : BOOLEAN,
          close : BOOLEAN] :
     /\ ~s.mail => s.rcptBad = 0
     /\ ~(s.mail /\ s.rcptBad = 0) => s.data
     /\ ~(s.mail /\ s.rcptBad = 0 /\ s.data) => (s.write /\ s.close)}

\* AuthResult with the error of a rejected AUTH dropped.
AuthResult_ErrorDropped(c, o) ==
  LET adv == c.hello /\ o.advAuth
      w0 == <<Ev("EXT", "AUTH", adv)>>
  IN IF adv THEN [err |-> "nil", wire |-> w0 \o <<Ev("AUTH", "", c.open /\ o.authOk)>>]
     ELSE [err |-> "nil", wire |-> w0]

\* XMailer.Auth on the client c: [err, wire].  Extension("AUTH") is looked
\* up in the server's EHLO answer: the lookup is recorded with its result.
AuthResult(c, o) ==
  LET adv == c.hello /\ o.advAuth
      w0 == <<Ev("EXT", "AUTH", adv)>>
  IN IF adv
       THEN IF c.open /\ o.authOk
              THEN [err |-> "nil", wire |-> w0 \o <<Ev("AUTH", "", TRUE)>>]
              ELSE [err |-> "ErrAuth", wire |-> w0 \o <<Ev("AUTH", "", FALSE)>>]
       ELSE [err |-> "nil", wire |-> w0]

\* DialResult with the error of a rejected STARTTLS dropped.
DialResult_UpgradeErrorDropped(xm, socks, variant, o) ==
  LET co == [nil |-> FALSE, open |-> TRUE, hello |-> o.hello, ready |-> FALSE]
      x1 == [xm EXCEPT !.client = co]
      w1 == <<Ev("CONNECT", "", TRUE), Ev("EHLO", LocalName, o.hello)>>
      asks == variant # "DialWithTLS"
      tls == asks /\ o.advTLS
      cfg == IF variant = "Dial" /\ ~xm.tlsConfig THEN "ServerName=x.Host"
             ELSE "tlsConfig"
      w2 == w1 \o (IF asks THEN <<Ev("EXT", "STARTTLS", o.advTLS)>> ELSE <<>>)
               \o (IF tls THEN <<Ev("STARTTLS", cfg, o.tlsOk)>> ELSE <<>>)
      au == AuthResult(co, o)
  IN IF ~o.conn THEN
       [err |-> "ErrDial", x |-> xm, sockets |-> socks,
        wire |-> <<Ev("CONNECT", "", FALSE)>>]
     ELSE IF ~o.hello THEN
       [err |-> "ErrHello", x |-> x1, sockets |-> socks + 1, wire |-> w1]
     ELSE IF au.err # "nil" THEN
       [err |-> au.err, x |-> x1, sockets |-> socks + 1, wire |-> w2 \o au.wire]
     ELSE
       [err |-> "nil",
        x |-> [x1 EXCEPT !.client.ready = TRUE, !.dialed = TRUE],
        sockets |-> socks + 1, wire |-> w2 \o au.wire]

\* The three dial variants share their shape: open the transport, set
\* x.client, greet, (Dial and DialWithStartTLS: upgrade if advertised),
\* authenticate if advertised, set x.dialed.  variant is "Dial", "DialWithTLS"
\* or "DialWithStartTLS".  [err, x, sockets, wire]
DialResult(xm, socks, variant, o) ==
  LET co == [nil |-> FALSE, open |-> TRUE, hello |-> o.hello, ready |-> FALSE]
      x1 == [xm EXCEPT !.client = co]
      w1 == <<Ev("CONNECT", "", TRUE), Ev("EHLO", LocalName, o.hello)>>
      asks == variant # "DialWithTLS"
      tls == asks /\ o.advTLS
      cfg == IF variant = "Dial" /\ ~xm.tlsConfig THEN "ServerName=x.Host"
             ELSE "tlsConfig"
      w2 == w1 \o (IF asks THEN <<Ev("EXT", "STARTTLS", o.advTLS)>> ELSE <<>>)
               \o (IF tls THEN <<Ev("STARTTLS", cfg, o.tlsOk)>> ELSE <<>>)
      au == AuthResult(co, o)
  IN IF ~o.conn THEN
       [err |-> "ErrDial", x |-> xm, sockets |-> socks,
        wire |-> <<Ev("CONNECT", "", FALSE)>>]
     ELSE IF ~o.hello THEN
       [err |-> "ErrHello", x |-> x1, sockets |-> socks + 1, wire |-> w1]
     ELSE IF tls /\ ~o.tlsOk THEN
       [err |-> "ErrStartTLS", x |-> x1, sockets |-> socks + 1, wire |-> w2]
     ELSE IF au.err # "nil" THEN
       [err |-> au.err, x |-> x1, sockets |-> socks + 1, wire |-> w2 \o au.wire]
     ELSE
       [err |-> "nil",
        x |-> [x1 EXCEPT !.client.ready = TRUE, !.dialed = TRUE],
        sockets |-> socks + 1, wire |-> w2 \o au.wire]

\* SendValidate without the check of the To list.
SendValidate_ToUnchecked(msg) ==
  IF msg.FromAddr = "" THEN "ErrFrom" ELSE "nil"

\* Send, lines 106-112: the checks on the message.
SendValidate(msg) ==
  IF msg.FromAddr = "" THEN "ErrFrom"
  ELSE IF Len(msg.To) = 0 THEN "ErrTo"
  ELSE "nil"

\* SendRecipients with the copy lists declared too.
SendRecipients_WithCopies(msg) == msg.To \o msg.CC \o msg.Bcc

\* Send, line 122: the addresses declared as recipients.
SendRecipients(msg) == msg.To

\* RcptEvents with the loop going on after a rejected RCPT.
RECURSIVE RcptEvents_NoAbort(_, _, _)
RcptEvents_NoAbort(to, i, bad) ==
  IF i > Len(to) THEN <<>>
  ELSE <<Ev("RCPT", to[i], i # bad)>> \o RcptEvents_NoAbort(to, i + 1, bad)

\* Send, lines 122-126: the loop over the recipients from index i on, the
\* RCPT commands issued; bad is the index of the first one rejected.
RECURSIVE RcptEvents(_, _, _)
RcptEvents(to, i, bad) ==
  IF i > Len(to) THEN <<>>
  ELSE IF i = bad THEN <<Ev("RCPT", to[i], FALSE)>>
  ELSE <<Ev("RCPT", to[i], TRUE)>> \o RcptEvents(to, i + 1, bad)

\* The placeholder Send gives an empty subject.
DefaultSubject == "(untitled)"

\* SendResult without the test of x.dialed before the call of Dial.
SendResult_AlwaysDials(xm, socks, msg, o, s) ==
  LET d == DialResult(xm, socks, "Dial", o)
      c == d.x.client
      v == SendValidate(msg)
      m1 == IF msg.Subject = "" THEN [msg EXCEPT !.Subject = DefaultSubject]
            ELSE msg
      R(r, mm, w, bytes, rds) ==
        [ret |-> r, x |-> d.x, sockets |-> d.sockets, m |-> mm,
         wire |-> d.wire \o w, data |-> bytes, reads |-> rds]
      mailOk == c.open /\ s.mail
      wMail == <<Ev("MAIL", msg.FromAddr, mailOk)>>
      to == SendRecipients(msg)
      bad == IF c.open THEN s.rcptBad ELSE 1
      wRcpt == wMail \o RcptEvents(to, 1, bad)
      dataOk == c.open /\ s.data
      wData == wRcpt \o <<Ev("DATA", "", dataOk)>>
      p == payload(m1)
  IN IF v # "nil" THEN R(v, msg, <<>>, <<>>, <<>>)
     ELSE IF c.nil THEN R("panic", m1, <<>>, <<>>, <<>>)
     ELSE IF ~c.hello THEN R("ErrHello", m1, <<>>, <<>>, <<>>)
     ELSE IF ~mailOk THEN R("ErrMail", m1, wMail, <<>>, <<>>)
     ELSE IF bad \in 1..Len(to) THEN R("ErrRcpt", m1, wRcpt, <<>>, <<>>)
     ELSE IF ~dataOk THEN R("ErrData", m1, wData, <<>>, <<>>)
     ELSE IF p.err # "nil" THEN
       R(p.err, p.m, wData \o <<Ev("END", "", c.open /\ s.close)>>, <<>>,
         p.reads)
     ELSE
       R("nil", p.m,
         wData \o <<Ev("BODY", "", c.open /\ s.write),
                    Ev("END", "", c.open /\ s.close)>>, p.bytes, p.reads)

\* XMailer.Send: [ret, x, sockets, m, wire, data, reads]
SendResult(xm, socks, msg, o, s) ==
  LET d == IF ~xm.dialed THEN DialResult(xm, socks, "Dial", o)
           ELSE [err |-> "nil", x |-> xm, sockets |-> socks, wire |-> <<>>]
      c == d.x.client
      v == SendValidate(msg)
      m1 == IF msg.Subject = "" THEN [msg EXCEPT !.Subject = DefaultSubject]
            ELSE msg
      R(r, mm, w, bytes, rds) ==
        [ret |-> r, x |-> d.x, sockets |-> d.sockets, m |-> mm,
         wire |-> d.wire \o w, data |-> bytes, reads |-> rds]
      mailOk == c.open /\ s.mail
      wMail == <<Ev("MAIL", msg.FromAddr, mailOk)>>
      to == SendRecipients(msg)
      bad == IF c.open THEN s.rcptBad ELSE 1
      wRcpt == wMail \o RcptEvents(to, 1, bad)
      dataOk == c.open /\ s.data
      wData == wRcpt \o <<Ev("DATA", "", dataOk)>>
      p == payload(m1)
  IN IF v # "nil" THEN R(v, msg, <<>>, <<>>, <<>>)
     ELSE IF c.nil THEN R("panic", m1, <<>>, <<>>, <<>>)
     ELSE IF ~c.hello THEN R("ErrHello", m1, <<>>, <<>>, <<>>)
     ELSE IF ~mailOk THEN R("ErrMail", m1, wMail, <<>>, <<>>)
     ELSE IF bad \in 1..Len(to) THEN R("ErrRcpt", m1, wRcpt, <<>>, <<>>)
     ELSE IF ~dataOk THEN R("ErrData", m1, wData, <<>>, <<>>)
     ELSE IF p.err # "nil" THEN
       R(p.err, p.m, wData \o <<Ev("END", "", c.open /\ s.close)>>, <<>>,
         p.reads)
     ELSE
       R("nil", p.m,
         wData \o <<Ev("BODY", "", c.open /\ s.write),
                    Ev("END", "", c.open /\ s.close)>>, p.bytes, p.reads)

\* A call on the client: the process has not crashed, and the bound on the
\* open connections leaves room for the connection the call may open.
Alive == ret # "panic"
Room == sockets < MaxConns

Dial ==
  \E o \in DialAnswers :
    LET r == DialResult(x, sockets, "Dial", o)
    IN /\ Alive
       /\ Room
       /\ x' = r.x
       /\ sockets' = r.sockets
       /\ wire' = r.wire
       /\ Returned("Dial", <<>>, r.err)
       /\ UNCHANGED <<isNil, m>>

DialWithTLS ==
  \E o \in DialAnswers :
    LET r == DialResult(x, sockets, "DialWithTLS", o)
    IN /\ Alive
       /\ Room
       /\ x' = r.x
       /\ sockets' = r.sockets
       /\ wire' = r.wire
       /\ Returned("DialWithTLS", <<>>, r.err)
       /\ UNCHANGED <<isNil, m>>

DialWithStartTLS ==
  \E o \in DialAnswers :
    LET r == DialResult(x, sockets, "DialWithStartTLS", o)
    IN /\ Alive
       /\ Room
       /\ x' = r.x
       /\ sockets' = r.sockets
       /\ wire' = r.wire
       /\ Returned("DialWithStartTLS", <<>>, r.err)
       /\ UNCHANGED <<isNil, m>>

Auth ==
  \E o \in {a \in DialAnswers : a.conn /\ a.hello /\ ~a.advTLS} :
    LET r == AuthResult(x.client, o)
    IN /\ Alive
       /\ op' = "Auth"
       /\ arg' = <<>>
       /\ ret' = IF x.client.nil THEN "panic" ELSE r.err
       /\ wire' = IF x.client.nil THEN <<>> ELSE r.wire
       /\ data' = <<>>
       /\ reads' = <<>>
       /\ UNCHANGED <<x, isNil, sockets, m>>

Send ==
  \E o \in IF x.dialed THEN {CHOOSE a \in DialAnswers : TRUE} ELSE DialAnswers,
     s \in SendAnswers :
    LET r == SendResult(x, sockets, m, o, s)
    IN /\ Alive
       /\ x.dialed \/ Room
       /\ x' = r.x
       /\ sockets' = r.sockets
       /\ m' = r.m
       /\ op' = "Send"
       /\ arg' = <<>>
       /\ ret' = r.ret
       /\ wire' = r.wire
       /\ data' = r.data
       /\ reads' = r.reads
       /\ UNCHANGED isNil

\* XMailer.Quit: x.client.Quit(), its error dropped.  On a client whose
\* greeting failed smtp.Client.Quit returns that error and sends nothing;
\* otherwise it sends QUIT, and closes the connection when the server answers
\* it with 221.
Quit ==
  \E quitOk \in BOOLEAN :
    LET sends == ~x.client.nil /\ x.client.hello
        closes == sends /\ x.client.open /\ quitOk
    IN /\ Alive
       /\ op' = "Quit"
       /\ arg' = <<>>
       /\ ret' = IF x.client.nil THEN "panic" ELSE "nil"
       /\ wire' = IF sends THEN <<Ev("QUIT", "", closes)>> ELSE <<>>
       /\ x' = IF closes THEN [x EXCEPT !.client.open = FALSE] ELSE x
       /\ sockets' = IF closes THEN sockets - 1 ELSE sockets
       /\ data' = <<>>
       /\ reads' = <<>>
       /\ UNCHANGED <<isNil, m>>

(***************************************************************************)
(* The builder methods of Message, as actions.  Each leaves the client     *)
(* alone and records the call.                                             *)
(***************************************************************************)
FromAddrs == {"", "a@x.com"}
ToAddrs == {"b@y.com", "c@z.com"}
CCAddrs == {"d@y.com"}
BccAddrs == {"e@y.com"}
Subjects == {"", "Awesome Subject"}
Texts == {<<>>, <<<<"hi">>>>, <<<<"hi">>, DelimLine>>}
HTMLs == {<<>>, <<<<"<b>hi</b>">>>>}

Items(msg) == Len(msg.To) + Len(msg.CC) + Len(msg.Bcc) + Len(msg.Attachments)

Called(name, a, r) ==
  /\ op' = name
  /\ arg' = a
  /\ ret' = r
  /\ wire' = <<>>
  /\ data' = <<>>
  /\ reads' = <<>>
  /\ UNCHANGED <<x, isNil, sockets>>

SetFrom ==
  \E from \in FromAddrs :
    /\ m' = [m EXCEPT !.FromName = "A", !.FromAddr = from]
    /\ Called("SetFrom", <<>>, "nil")

SetSubject ==
  \E subject \in Subjects :
    /\ m' = [m EXCEPT !.Subject = subject]
    /\ Called("SetSubject", <<>>, "nil")

AddTo ==
  \E tos \in SeqsUpTo(ToAddrs, 2) :
    /\ Len(tos) > 0
    /\ Items(m) + Len(tos) <= MaxItems
    /\ m' = [m EXCEPT !.To = m.To \o tos]
    /\ Called("AddTo", <<>>, "nil")

AddCC ==
  \E c \in CCAddrs :
    /\ Items(m) < MaxItems
    /\ m' = [m EXCEPT !.CC = Append(m.CC, c)]
    /\ Called("AddCC", <<>>, "nil")

AddBCC ==
  \E c \in BccAddrs :
    /\ Items(m) < MaxItems
    /\ m' = [m EXCEPT !.Bcc = Append(m.Bcc, c)]
    /\ Called("AddBCC", <<>>, "nil")

SetText ==
  \E text \in Texts :
    /\ m' = [m EXCEPT !.Text = text]
    /\ Called("SetText", <<>>, "nil")

SetHTML ==
  \E html \in HTMLs :
    /\ m' = [m EXCEPT !.HTML = html]
    /\ Called("SetHTML", <<>>, "nil")

\* The attachments a caller hands to AddAttachment: content given (README),
\* neither content nor path, or a path that does not exist.
GivenAttachments ==
  { [ContentType |-> "image/jpeg", FileName |-> "", BaseName |-> "abc.jpg",
     Content |-> Bytes(<<65, 66>>)],
    [ContentType |-> "", FileName |-> "", BaseName |-> "", Content |-> NilBytes],
    [ContentType |-> "application/octet-stream", FileName |-> "/a/missing",
     BaseName |-> "missing", Content |-> NilBytes] }

AddAttachment ==
  \E attachment \in GivenAttachments :
    /\ Items(m) < MaxItems
    /\ m' = [m EXCEPT !.Attachments = Append(m.Attachments, attachment)]
    /\ Called("AddAttachment", <<>>, "nil")

\* strings.ReplaceAll(fileName, "\\", "/")
ReplaceBackslashes(fileName) ==
  IF fileName = "\\a\\f.txt" THEN "/a/f.txt" ELSE fileName

\* AttachFileResult without the test that the path is not a directory.
AttachFileResult_DirAccepted(msg, fileName0) ==
  LET fileName == ReplaceBackslashes(fileName0)
      ct == ParseContentTypeWithExt(fileName)
  IN IF fileName \notin (RegularFiles \cup Directories)
       THEN [err |-> "ErrStat", m |-> msg]
     ELSE [err |-> "nil",
           m |-> [msg EXCEPT !.Attachments =
                    Append(msg.Attachments,
                           [ContentType |-> ct, FileName |-> fileName,
                            BaseName |-> Base(fileName), Content |-> NilBytes])]]

\* Message.AttachFile: [err, m]
AttachFileResult(msg, fileName0) ==
  LET fileName == ReplaceBackslashes(fileName0)
      ct == ParseContentTypeWithExt(fileName)
  IN IF fileName \notin (RegularFiles \cup Directories)
       THEN [err |-> "ErrStat", m |-> msg]
     ELSE IF fileName \in Directories
       THEN [err |-> "ErrNotAFile", m |-> msg]
     ELSE [err |-> "nil",
           m |-> [msg EXCEPT !.Attachments =
                    Append(msg.Attachments,
                           [ContentType |-> ct, FileName |-> fileName,
                            BaseName |-> Base(fileName), Content |-> NilBytes])]]

AttachFile ==
  \E fileName \in Paths \cup {"\\a\\f.txt"} :
    LET r == AttachFileResult(m, fileName)
    IN /\ Items(m) < MaxItems
       /\ m' = r.m
       /\ Called("AttachFile", <<fileName>>, r.err)

Reset ==
  /\ m' = [m EXCEPT !.FromAddr = "", !.FromName = "", !.Subject = "",
                    !.CC = <<>>, !.Bcc = <<>>, !.To = <<>>,
                    !.Attachments = <<>>, !.HTML = <<>>, !.Text = <<>>]
  /\ Called("Reset", <<>>, "nil")

\* A call of m.payload() on its own.
Build ==
  LET r == payload(m)
  IN /\ m' = r.m
     /\ op' = "payload"
     /\ arg' = <<>>
     /\ ret' = r.err
     /\ wire' = <<>>
     /\ data' = r.bytes
     /\ reads' = r.reads
     /\ UNCHANGED <<x, isNil, sockets>>

InitMsg ==
  /\ x = [ZeroXMailer EXCEPT !.Addr = ServerAddr, !.Host = <<"h">>]
  /\ isNil = FALSE
  /\ sockets = 0
  /\ m = NewMessage
  /\ op = "NewMessage"
  /\ arg = <<>>
  /\ ret = "nil"
  /\ wire = <<>>
  /\ data = <<>>
  /\ reads = <<>>

NextMsg ==
  \/ SetFrom
  \/ SetSubject
  \/ AddTo
  \/ AddCC
  \/ AddBCC
  \/ SetText
  \/ SetHTML
  \/ AddAttachment
  \/ AttachFile
  \/ Reset
  \/ Build

SpecMsg == InitMsg /\ [][NextMsg]_vars

(***************************************************************************)
(* The session specification: a client as a constructor returns it, a      *)
(* message as its builder methods leave it, then any calls on the client.  *)
(***************************************************************************)
Recipients == <<"b@y.com", "c@z.com", "f@y.com", "g@z.com">>

SendMessages ==
  { [Subject |-> "", FromAddr |-> fr, FromName |-> "A",
     To |-> SubSeq(Recipients, 1, n),
     CC |-> <<"d@y.com">>, Bcc |-> <<"e@y.com">>, Text |-> <<<<"hi">>>>,
     HTML |-> <<>>, Attachments |-> at] :
    fr \in FromAddrs, n \in 0..MaxTo,
    at \in {<<>>, AttachFileResult(NewMessage, "/a/f.txt").m.Attachments,
            <<[ContentType |-> "", FileName |-> "", BaseName |-> "",
               Content |-> NilBytes]>>} }

Init ==
  /\ x \in {[ZeroXMailer EXCEPT !.Addr = ServerAddr, !.Host = <<"h">>,
                                !.tlsConfig = t] : t \in BOOLEAN}
  /\ isNil = FALSE
  /\ sockets = 0
  /\ m \in SendMessages
  /\ op = "NewXMailer"
  /\ arg = ServerAddr
  /\ ret = "nil"
  /\ wire = <<>>
  /\ data = <<>>
  /\ reads = <<>>

Next ==
  \/ Dial
  \/ DialWithTLS
  \/ DialWithStartTLS
  \/ Auth
  \/ Send
  \/ Quit

Spec == Init /\ [][Next]_vars

(***************************************************************************)
(* Properties.  Helpers on the events and on the bytes of an envelope.     *)
(***************************************************************************)
IsTx(e) == e.cmd \in {"MAIL", "RCPT", "DATA", "BODY", "END"}
Tx(w) == SelectSeq(w, IsTx)
Has(w, c) == \E i \in 1..Len(w) : w[i].cmd = c
Count(w, c) == Cardinality({i \in 1..Len(w) : w[i].cmd = c})
Rejected(w, c) == \E i \in 1..Len(w) : w[i].cmd = c /\ ~w[i].ok
Advertised(w, ext) ==
  \E i \in 1..Len(w) : w[i].cmd = "EXT" /\ w[i].arg = ext /\ w[i].ok
Range(q) == {q[i] : i \in 1..Len(q)}
Dials == {"Dial", "DialWithTLS", "DialWithStartTLS"}
Constructors == {"NewXMailer", "NewXMailerWithStartTLS"}

\* C1: Send returns nil only if the server accepted MAIL, one RCPT for every
\* entry of To, DATA, the writing of the envelope and the end of the data
\* phase; with a failed write or a rejected end of data it returns an error.
C1_NilOnlyIfAcknowledged ==
  (op = "Send" /\ ret = "nil") =>
    /\ Has(wire, "MAIL") /\ Has(wire, "DATA") /\ Has(wire, "END")
    /\ Count(wire, "RCPT") = Len(m.To)
    /\ \A i \in 1..Len(wire) : IsTx(wire[i]) => wire[i].ok

\* C2: a Send whose attachment cannot be resolved returns the read error
\* before any transaction is opened: no MAIL, RCPT or DATA was issued and
\* no body, not even an empty one, was committed.
C2_ReadFailureBeforeTransaction ==
  (op = "Send" /\ ret \in {"ErrStat", "ErrRead"}) => Tx(wire) = <<>>

\* C3: Send never crashes; a Send whose on-demand Dial failed returns an
\* error and issues no transaction command; transaction commands are
\* issued only on a session whose dial ran to its successful end.
C3_SendOnlyOnDialedSession ==
  op = "Send" =>
    /\ ret # "panic"
    /\ (Has(wire, "CONNECT") /\ ~x.dialed) => (ret # "nil" /\ Tx(wire) = <<>>)
    /\ Tx(wire) # <<>> => x.client.ready

\* C4: a Send of a message with an empty sender address or an empty To list
\* returns a validation error and issues no MAIL, RCPT or DATA, whatever the
\* state of the session.
C4_ValidationOpensNoTransaction ==
  (op = "Send" /\ (m.FromAddr = "" \/ Len(m.To) = 0)) =>
    /\ ret \in {"ErrFrom", "ErrTo"}
    /\ Tx(wire) = <<>>

C4_Witness ==
  /\ op = "Send" /\ x.dialed /\ x.client.ready /\ x.client.open
  /\ m.FromAddr # "" /\ Len(m.To) = 0
  /\ ret = "ErrTo"

\* C5: a rejected MAIL, RCPT or DATA is the last thing the Send issues: it
\* returns that error, and no RCPT, DATA or envelope byte follows.
C5_AbortAtFirstRejection ==
  op = "Send" =>
    \A i \in 1..Len(wire) :
      (wire[i].cmd \in {"MAIL", "RCPT", "DATA"} /\ ~wire[i].ok) =>
        /\ i = Len(wire)
        /\ data = <<>>
        /\ reads = <<>>
        /\ ret = (CASE wire[i].cmd = "MAIL" -> "ErrMail"
                    [] wire[i].cmd = "RCPT" -> "ErrRcpt"
                    [] OTHER -> "ErrData")

C5_Witness ==
  /\ op = "Send" /\ ret = "ErrRcpt"
  /\ Len(m.To) = 2 /\ Count(wire, "RCPT") = 1
  /\ ~Has(wire, "DATA")

\* C6: in a successful Send the transaction is, in this order, MAIL with the
\* sender address, one RCPT per entry of To in list order, DATA, the envelope
\* bytes, the close of the data channel, after everything else the call
\* issued; no address of CC or Bcc is passed to RCPT.
C6_TransactionOrder ==
  (op = "Send" /\ ret = "nil") =>
    LET t == Tx(wire)
        n == Len(m.To)
    IN /\ Len(t) = n + 4
       /\ t = SubSeq(wire, Len(wire) - Len(t) + 1, Len(wire))
       /\ t[1].cmd = "MAIL" /\ t[1].arg = m.FromAddr
       /\ \A i \in 1..n : t[i + 1].cmd = "RCPT" /\ t[i + 1].arg = m.To[i]
       /\ t[n + 2].cmd = "DATA"
       /\ t[n + 3].cmd = "BODY"
       /\ t[n + 4].cmd = "END"
       /\ data # <<>>
       /\ \A i \in 1..Len(wire) :
            wire[i].cmd = "RCPT" => wire[i].arg \notin (Range(m.CC) \cup Range(m.Bcc))

C6_Witness ==
  /\ op = "Send" /\ ret = "nil"
  /\ Len(m.To) = 2 /\ Len(m.CC) > 0 /\ Len(m.Bcc) > 0
  /\ Count(wire, "RCPT") = 2

NoColon(a) == \A i \in 1..Len(a) : a[i] # ":"
FirstColon(a) == CHOOSE i \in 1..Len(a) : a[i] = ":" /\ \A j \in 1..(i - 1) : a[j] # ":"
C8_ConstructorsValidate ==
  op \in Constructors =>
    /\ (NoColon(arg) \/ FirstColon(arg) = 1 \/ FirstColon(arg) = Len(arg))
         => (ret # "nil" /\ isNil)
    /\ wire = <<>> /\ sockets = 0
    /\ isNil <=> ret # "nil"
    /\ ~isNil => (~x.dialed /\ x.client.nil /\ x.Addr = arg)

C8_Witness ==
  /\ op = "NewXMailer" /\ arg = <<"h", ":">>
  /\ ret = "ErrInvalidAddress" /\ isNil

\* The lines of an envelope before its first empty line (all of them when
\* there is none), and the lines after its first Subject header.
RECURSIVE TopHeaders(_)
TopHeaders(b) ==
  IF b = <<>> \/ Head(b) = <<>> THEN <<>> ELSE <<Head(b)>> \o TopHeaders(Tail(b))
IsContentType(l) == Len(l) >= 2 /\ l[1] = "Content-Type: "
IsSubject(l) == Len(l) >= 1 /\ l[1] = "Subject: "
RECURSIVE AfterSubject(_)
AfterSubject(b) ==
  IF b = <<>> THEN <<>>
  ELSE IF IsSubject(Head(b)) THEN Tail(b)
  ELSE AfterSubject(Tail(b))

\* C9: the envelope has exactly one top-level Content-Type header, and it is
\* multipart/mixed iff there is an attachment, multipart/alternative iff
\* there is none and text and HTML are both non-empty, text/html iff there
\* is none, HTML is non-empty and text is empty, text/plain otherwise.
C9_ContentTypeByShape ==
  (op = "payload" /\ ret = "nil") =>
    LET cts == SelectSeq(TopHeaders(data), IsContentType)
        expected ==
          CASE m.Attachments # <<>> -> "multipart/mixed"
            [] m.Attachments = <<>> /\ m.Text # <<>> /\ m.HTML # <<>>
                 -> "multipart/alternative"
            [] m.Attachments = <<>> /\ m.Text = <<>> /\ m.HTML # <<>>
                 -> "text/html"
            [] OTHER -> "text/plain"
    IN Len(cts) = 1 /\ cts[1][2] = expected

C9_Witness ==
  /\ op = "payload" /\ ret = "nil"
  /\ m.Attachments # <<>> /\ m.Text # <<>> /\ m.HTML # <<>>

PartHeader(ctype) ==
  <<<<"Content-Type: ", ctype, "; charset=UTF-8">>,
    <<"Content-Transfer-Encoding: ", "quoted-printable">>>>

\* C10 as stated: without attachments and without HTML the envelope body is
\* one section equal to the text, an empty one separated from the headers
\* when the text is empty, and no line is a boundary delimiter; with text and
\* HTML it is two parts, plain before HTML, each with its part header and
\* each under its own delimiter.
C10_BodySections ==
  (op = "payload" /\ ret = "nil" /\ m.Attachments = <<>>) =>
    LET body == AfterSubject(data)
    IN /\ m.HTML = <<>> =>
            (body = <<<<>>>> \o m.Text /\ \A i \in 1..Len(data) : data[i] # DelimLine)
       /\ (m.HTML # <<>> /\ m.Text # <<>>) =>
            body = <<<<>>, DelimLine>> \o PartHeader("text/plain") \o <<<<>>>>
                   \o m.Text \o <<DelimLine>> \o PartHeader("text/html")
                   \o <<<<>>>> \o m.HTML \o <<DelimLine>>

\* C10 as amended: what follows the Subject header is, without attachments:
\* nothing when text and HTML are both empty; one empty line and the one
\* non-empty body verbatim when exactly one is non-empty; and with both, two
\* parts, plain before HTML, each with its part header, a delimiter before
\* the first and after each; bodies are not escaped.
C10_BodySectionsAmended ==
  (op = "payload" /\ ret = "nil" /\ m.Attachments = <<>>) =>
    LET body == AfterSubject(data)
    IN /\ (m.HTML = <<>> /\ m.Text = <<>>) => body = <<>>
       /\ (m.HTML = <<>> /\ m.Text # <<>>) => body = <<<<>>>> \o m.Text
       /\ (m.HTML # <<>> /\ m.Text = <<>>) => body = <<<<>>>> \o m.HTML
       /\ (m.HTML # <<>> /\ m.Text # <<>>) =>
            body = <<<<>>, DelimLine>> \o PartHeader("text/plain") \o <<<<>>>>
                   \o m.Text \o <<DelimLine>> \o PartHeader("text/html")
                   \o <<<<>>>> \o m.HTML \o <<DelimLine>>
       /\ m.HTML = <<>> =>
            \A i \in 1..Len(data) :
              data[i] = DelimLine => \E j \in 1..Len(m.Text) : m.Text[j] = DelimLine

C10_Witness ==
  /\ op = "payload" /\ ret = "nil" /\ m.Attachments = <<>>
  /\ m.Text = <<>> /\ m.HTML = <<>>
  /\ IsSubject(data[Len(data)])

\* The lines of an envelope up to and including its first Subject header,
\* and the first token of each line of a sequence of lines.
RECURSIVE ThroughSubject(_)
ThroughSubject(b) ==
  IF b = <<>> THEN <<>>
  ELSE IF IsSubject(Head(b)) THEN <<Head(b)>>
  ELSE <<Head(b)>> \o ThroughSubject(Tail(b))
FirstTokens(b) == [i \in 1..Len(b) |-> IF b[i] = <<>> THEN "" ELSE b[i][1]]

\* C11: the header lines of the envelope are, in this order, Message-Id,
\* Mime-Version, Date, From, To, CC if and only if there is a CC recipient,
\* Content-Type with its second line (the boundary for a multi-part shape,
\* the transfer encoding otherwise) and Subject; no line names the Bcc
\* recipients.
C11_HeaderOrder ==
  (op = "payload" /\ ret = "nil") =>
    /\ FirstTokens(ThroughSubject(data)) =
         <<"Message-Id: ", "Mime-Version: 1.0", "Date: ", "From: ", "To: ">>
         \o (IF m.CC # <<>> THEN <<"CC: ">> ELSE <<>>)
         \o <<"Content-Type: ",
              IF m.Attachments # <<>> \/ (m.Text # <<>> /\ m.HTML # <<>>)
                THEN " boundary=" ELSE "Content-Transfer-Encoding: ",
              "Subject: ">>
    /\ \A i \in 1..Len(data) : \A j \in 1..Len(data[i]) :
         \A k \in 1..Len(m.Bcc) : data[i][j] # m.Bcc[k]

\* The number of lines of b equal to l, and the parts of a message: one for a
\* non-empty text, one for a non-empty HTML, one for each attachment.
CountLines(b, l) == Cardinality({i \in 1..Len(b) : b[i] = l})
NumParts(msg) ==
  (IF msg.Text # <<>> THEN 1 ELSE 0) + (IF msg.HTML # <<>> THEN 1 ELSE 0)
  + Len(msg.Attachments)
IsMultipart(msg) == msg.Attachments # <<>> \/ (msg.Text # <<>> /\ msg.HTML # <<>>)
ClosingLine == <<"--", boundary, "--">>

\* C12 as stated: a multi-part envelope of n parts has exactly n + 1 lines
\* equal to the delimiter, the first before the first part and the last
\* closing the envelope, and none is a closing delimiter.
C12_DelimiterCount ==
  (op = "payload" /\ ret = "nil" /\ IsMultipart(m)) =>
    /\ CountLines(data, DelimLine) = NumParts(m) + 1
    /\ AfterSubject(data)[2] = DelimLine
    /\ data[Len(data)] = DelimLine
    /\ CountLines(data, ClosingLine) = 0

\* The part the serializer writes for a body variant of a multi-part message.
BodyPart(body, ctype) ==
  IF body = <<>> THEN <<>>
  ELSE PartHeader(ctype) \o <<<<>>>> \o body \o <<DelimLine>>

\* C12 as amended: in a multi-part envelope of n parts the serializer writes
\* n + 1 delimiter lines, one before the first part and one after each part
\* (text, HTML, then each attachment's seven lines), also when there is no
\* text and no HTML; the lines equal to the delimiter are these and the body
\* lines that themselves equal it; none is a closing delimiter.
C12_DelimiterCountAmended ==
  (op = "payload" /\ ret = "nil" /\ IsMultipart(m)) =>
    LET body == AfterSubject(data)
        bodies == <<<<>>, DelimLine>> \o BodyPart(m.Text, "text/plain")
                  \o BodyPart(m.HTML, "text/html")
        atts == SubSeq(body, Len(bodies) + 1, Len(body))
    IN /\ SubSeq(body, 1, Len(bodies)) = bodies
       /\ Len(atts) = 8 * Len(m.Attachments)
       /\ \A i \in 1..Len(atts) : atts[i] = DelimLine <=> i % 8 = 0
       /\ CountLines(data, DelimLine) =
            NumParts(m) + 1 + CountLines(m.Text, DelimLine)
            + CountLines(m.HTML, DelimLine)
       /\ data[Len(data)] = DelimLine
       /\ CountLines(data, ClosingLine) = 0

C12_Witness ==
  /\ op = "payload" /\ ret = "nil"
  /\ m.Text = <<>> /\ m.HTML = <<>> /\ Len(m.Attachments) = 2
  /\ CountLines(data, DelimLine) = 3

\* base64 decoding of a padded string of the standard alphabet, by groups of
\* four characters.
DecodeChar(c) == (CHOOSE i \in 1..64 : encodeStd[i] = c) - 1
RECURSIVE DecodeString(_)
DecodeString(s) ==
  IF Len(s) < 4 THEN <<>>
  ELSE
    LET a == DecodeChar(s[1])
        b == DecodeChar(s[2])
    IN IF s[3] = "=" THEN <<a * 4 + (b \div 16)>>
       ELSE IF s[4] = "="
         THEN <<a * 4 + (b \div 16), (b % 16) * 16 + (DecodeChar(s[3]) \div 4)>>
       ELSE <<a * 4 + (b \div 16),
              (b % 16) * 16 + (DecodeChar(s[3]) \div 4),
              (DecodeChar(s[3]) % 4) * 64 + DecodeChar(s[4])>>
            \o DecodeString(SubSeq(s, 5, Len(s)))

IsDisposition(l) == l = <<"Content-Disposition: attachment;">>

\* C13: a successful build of a message with k >= 1 attachments ends with k
\* attachment parts and has no other: the i-th names the i-th attachment,
\* declares base64, and its body decodes to the content the attachment had
\* before the build or, when it had none, to the bytes of the file at its
\* path; the text and HTML parts come before them.
C13_AttachmentParts ==
  [][ (op' = "payload" /\ ret' = "nil" /\ m.Attachments # <<>>) =>
        LET body == AfterSubject(data')
            k == Len(m.Attachments)
            first == Len(body) - 8 * k
        IN /\ first >= 2
           /\ Len(SelectSeq(data', IsDisposition)) = k
           /\ SubSeq(body, 1, first) =
                <<<<>>, DelimLine>> \o BodyPart(m.Text, "text/plain")
                \o BodyPart(m.HTML, "text/html")
           /\ \A i \in 1..k :
                LET part == SubSeq(body, first + 8 * (i - 1) + 1, first + 8 * i)
                    a == m.Attachments[i]
                IN /\ IsDisposition(part[1])
                   /\ part[2] = <<" filename=\"", a.BaseName, "\"">>
                   /\ part[3] = <<"Content-Id: <", a.BaseName, ">">>
                   /\ part[4] = <<"Content-Transfer-Encoding: ", "base64">>
                   /\ part[5] = <<"Content-Type: ", a.ContentType>>
                   /\ part[6] = <<>>
                   /\ DecodeString(part[7]) =
                        (IF a.Content # NilBytes THEN a.Content[1]
                         ELSE FileBytes[a.FileName])
                   /\ part[8] = DelimLine
    ]_vars

C13_Witness ==
  /\ op = "payload" /\ ret = "nil" /\ m.Text # <<>>
  /\ Len(m.Attachments) = 2
  /\ m.Attachments[1].FileName = "/a/f.txt" /\ m.Attachments[2].FileName = ""
  /\ DecodeString(data[Len(data) - 1]) = <<65, 66>>
  /\ DecodeString(data[Len(data) - 9]) = FileBytes["/a/f.txt"]

\* The paths of the attachments of a message that have no content, in order.
RECURSIVE UnresolvedPaths(_)
UnresolvedPaths(atts) ==
  IF atts = <<>> THEN <<>>
  ELSE (IF Head(atts).Content = NilBytes THEN <<Head(atts).FileName>> ELSE <<>>)
       \o UnresolvedPaths(Tail(atts))

\* C14: a build leaves every attachment that had content as it was and
\* reads no file for it; it reads, once each and in order, files of
\* attachments without content only, stopping at the first failure; an
\* attachment it resolves holds the bytes of its file from then on, so that
\* a later build does not read the file again; after a successful build
\* every attachment has content.
C14_ContentCached ==
  [][ op' = "payload" =>
        LET unresolved == UnresolvedPaths(m.Attachments)
        IN /\ Len(m'.Attachments) = Len(m.Attachments)
           /\ \A i \in 1..Len(m.Attachments) :
                /\ m.Attachments[i].Content # NilBytes
                     => m'.Attachments[i] = m.Attachments[i]
                /\ (m.Attachments[i].Content = NilBytes
                    /\ m'.Attachments[i].Content # NilBytes)
                     => m'.Attachments[i] =
                          [m.Attachments[i] EXCEPT
                             !.Content = Bytes(FileBytes[m.Attachments[i].FileName])]
           /\ Len(reads') <= Len(unresolved)
           /\ reads' = SubSeq(unresolved, 1, Len(reads'))
           /\ ret' = "nil" =>
                /\ reads' = unresolved
                /\ \A i \in 1..Len(m'.Attachments) :
                     m'.Attachments[i].Content # NilBytes
    ]_vars

C14_Witness ==
  /\ op = "payload" /\ ret = "nil" /\ reads = <<>>
  /\ Len(m.Attachments) = 2
  /\ \A i \in 1..2 :
       /\ m.Attachments[i].FileName = "/a/f.txt"
       /\ m.Attachments[i].Content = Bytes(FileBytes["/a/f.txt"])

\* The path a call of AttachFile names: its argument, a path written with
\* backslashes being the path written with slashes.
Named(a) == IF a = <<"\\a\\f.txt">> THEN "/a/f.txt" ELSE a[1]

C16_QuitAlways ==
  op = "Quit" => (ret # "panic" /\ ~x.client.open)

\* The place of a protocol event in a session: connect, greeting, the lookup
\* of STARTTLS and the upgrade, the lookup of AUTH and the authentication,
\* the commands of a transaction, the termination.
Rank(e) ==
  CASE e.cmd = "CONNECT" -> 1
    [] e.cmd = "EHLO" -> 2
    [] e.cmd = "EXT" /\ e.arg = "STARTTLS" -> 3
    [] e.cmd = "STARTTLS" -> 4
    [] e.cmd = "EXT" /\ e.arg = "AUTH" -> 5
    [] e.cmd = "AUTH" -> 6
    [] IsTx(e) -> 7
    [] OTHER -> 8
IsDialStep(e) == e.cmd \in {"CONNECT", "EHLO", "STARTTLS", "AUTH"}

\* The trace w never steps down in rank, never repeats a step of the dial,
\* has nothing of the dial after a step that failed, and has AUTH only after
\* a STARTTLS that succeeded when STARTTLS was advertised.
DialOrdered(w) ==
  /\ \A i \in 1..(Len(w) - 1) :
       /\ Rank(w[i]) <= Rank(w[i + 1])
       /\ IsDialStep(w[i + 1]) => Rank(w[i]) < Rank(w[i + 1])
       /\ (IsDialStep(w[i]) /\ Rank(w[i + 1]) <= 6) => w[i].ok
  /\ (Advertised(w, "STARTTLS") /\ Has(w, "AUTH")) =>
       \E i \in 1..Len(w) : w[i].cmd = "STARTTLS" /\ w[i].ok /\ Rank(w[i]) < 6

\* C17: the steps of a dial, that of Send included, come in the order
\* connect, greeting, upgrade, authentication, each at most once, and a step
\* that fails is the last one; with STARTTLS advertised AUTH is issued only
\* after a STARTTLS that succeeded; every transaction command comes after
\* every step of the dial; and a call sets the dialed flag only if it
\* connected, greeted and had no step that failed.
C17_DialOrder ==
  /\ []DialOrdered(wire)
  /\ [][ (x'.dialed /\ ~x.dialed) =>
            /\ op' \in Dials \cup {"Send"}
            /\ Has(wire', "CONNECT") /\ Has(wire', "EHLO")
            /\ \A i \in 1..Len(wire') : IsDialStep(wire'[i]) => wire'[i].ok
        ]_vars

C17_Witness ==
  /\ op = "Dial" /\ ret = "nil" /\ x.dialed
  /\ Advertised(wire, "STARTTLS") /\ Advertised(wire, "AUTH")
  /\ Len(wire) = 6
  /\ wire[4].cmd = "STARTTLS" /\ wire[4].ok
  /\ wire[6].cmd = "AUTH" /\ wire[6].ok

\* C18: a Send on a client whose dialed flag is set opens no connection and
\* greets no server: it runs on the client it found; a Send that opened the
\* data phase has closed it when it returns; and a Send that returns nil
\* ran, after the steps of its dial if any, exactly MAIL, one RCPT for each
\* entry of To, DATA, the envelope and the end of the data phase, in this
\* order, so that the transactions of consecutive Sends do not overlap.
C18_OneMessageAtATime ==
  [][ op' = "Send" =>
        LET t == Tx(wire')
            n == Len(m'.To)
        IN /\ x.dialed =>
                /\ \A i \in 1..Len(wire') : IsTx(wire'[i])
                /\ x'.client = x.client
                /\ sockets' = sockets
           /\ (\E i \in 1..Len(wire') : wire'[i].cmd = "DATA" /\ wire'[i].ok) =>
                wire'[Len(wire')].cmd = "END"
           /\ ret' = "nil" =>
                /\ Len(t) = n + 4
                /\ t = SubSeq(wire', Len(wire') - Len(t) + 1, Len(wire'))
                /\ t[1].cmd = "MAIL"
                /\ \A i \in 1..n : t[i + 1].cmd = "RCPT" /\ t[i + 1].arg = m'.To[i]
                /\ t[n + 2].cmd = "DATA"
                /\ t[n + 3].cmd = "BODY"
                /\ t[n + 4].cmd = "END"
    ]_vars

C18_Witness ==
  /\ op = "Send" /\ ret = "nil" /\ x.dialed
  /\ wire[1].cmd = "MAIL" /\ wire[Len(wire)].cmd = "END"
  /\ m.Attachments # <<>> /\ reads = <<>>

\* C19: a client has at most one transport connection that was opened and
\* not yet closed.
C19_OneConnection ==
  sockets <= 1

\* C20: a Send that follows a Quit on a connected client issues no MAIL,
\* RCPT or DATA on the connection the Quit ended: it first opens a new
\* connection or it returns an error without a transaction command.
C20_NoSendAfterQuit ==
  [][ (op = "Quit" /\ Has(wire, "QUIT") /\ op' = "Send") =>
        \/ Has(wire', "CONNECT")
        \/ (ret' # "nil" /\ Tx(wire') = <<>>)
    ]_vars

====
